---- MODULE Spec2Model ----
(***************************************************************************)
(* lstasko: the LSTasko class of src/lstasko/lstasko.py.                   *)
(*                                                                         *)
(* The state is one LSTasko instance (its database connection and cursor)  *)
(* and the call its single-threaded caller has made last: the operation,   *)
(* its arguments, and what it returned or raised.  The caller calls one    *)
(* method at a time and resumes.  The rows of table rhnChannel are state   *)
(* of the database the instance reads.                                     *)
(*                                                                         *)
(* javaobj.loads is a library outside the repository.  A payload is kept   *)
(* at the level loads sees it: the 4 header bytes, the kind of the first   *)
(* top-level content, the class of the object, the annotation list that    *)
(* the class wrote (block data, then the objects in stream order) and      *)
(* whether the stream reaches the end-of-block marker.                     *)
(***************************************************************************)
EXTENDS Integers, Sequences, FiniteSets, TLC

VARIABLES
    db_connection,   \* self._db_connection: "None" or "connection"
    db_cursor,       \* self._db_cursor: "None" or "cursor"
    op,              \* the caller's last call, "idle" between calls
    data,            \* the bytes given to get_reposync_details
    raised,          \* "" or the class of the exception the call let through
    missing,         \* the missing list of that exception (ChannelNotFound)
    returned,        \* the type of the value returned: "dict", "self", "None"
    value,           \* the dict get_reposync_details returned
    absorbed,        \* "" or the class of the exception its handler absorbed
    resolver_calls,  \* the ids get_channel_details was called with, in order
    rhnChannel,      \* the rows of table rhnChannel, in the order fetchall()
                     \* returns them
    args,            \* the arguments of the caller's last call (other than data)
    answer,          \* what that call returned, when it is not the dict of
                     \* get_reposync_details
    executed,        \* the queries that call made the cursor execute
    kept             \* the result of an earlier get_reposync_details call that
                     \* the caller has kept, with the bytes it was for

vars == <<db_connection, db_cursor, op, data, raised, missing, returned, value,
          absorbed, resolver_calls, rhnChannel, args, answer, executed, kept>>

\* Bounds of the model.
MaxEntries == 2      \* key/value entries of a payload's map
MaxIds == 2          \* strings in a nested channel_ids list
MaxIdents == 2       \* identifiers in a list given to a channel getter
MaxRuns == 2         \* Taskomatic runs in the database

\* between calls: no arguments, no answer; nothing kept
NoArgs == [call |-> "none"]
NoAnswer == [kind |-> "none"]
NoCall == [call |-> "none"]

(***************************************************************************)
(* Python text conversions: str.lower() and int().                         *)
(***************************************************************************)
UpperChars == <<"A","B","C","D","E","F","G","H","I","J","K","L","M",
                "N","O","P","Q","R","S","T","U","V","W","X","Y","Z">>
LowerChars == <<"a","b","c","d","e","f","g","h","i","j","k","l","m",
                "n","o","p","q","r","s","t","u","v","w","x","y","z">>
DigitChars == <<"0","1","2","3","4","5","6","7","8","9">>

LowerChar(c) ==
    IF \E i \in 1..Len(UpperChars) : UpperChars[i] = c
    THEN LowerChars[CHOOSE i \in 1..Len(UpperChars) : UpperChars[i] = c]
    ELSE c

RECURSIVE py_lower(_)
py_lower(s) == IF Len(s) = 0 THEN "" ELSE LowerChar(Head(s)) \o py_lower(Tail(s))

IsDigit(c) == \E i \in 1..Len(DigitChars) : DigitChars[i] = c
DigitValue(c) == (CHOOSE i \in 1..Len(DigitChars) : DigitChars[i] = c) - 1

\* a parse that adds the digits up without shifting the value read so far
RECURSIVE ParseDigitsNoShift(_, _)
ParseDigitsNoShift(s, acc) ==
    IF Len(s) = 0 THEN acc ELSE ParseDigitsNoShift(Tail(s), acc + DigitValue(Head(s)))

RECURSIVE ParseDigits(_, _)
ParseDigits(s, acc) ==
    IF Len(s) = 0 THEN acc ELSE ParseDigits(Tail(s), acc * 10 + DigitValue(Head(s)))

\* int(text): the texts of the model hold letters, digits, "-" and "_" only, so
\* a text is an integer literal exactly when it is a non-empty run of digits.
IsIntText(s) == Len(s) > 0 /\ \A i \in 1..Len(s) : IsDigit(SubSeq(s, i, i))
py_int(s) ==
    IF IsIntText(s) THEN [raised |-> "", int |-> ParseDigits(s, 0)]
    ELSE [raised |-> "ValueError", int |-> 0]

(***************************************************************************)
(* Objects javaobj hands back.                                             *)
(***************************************************************************)
JavaString(s) == [t |-> "JavaString", value |-> s, items |-> <<>>]
\* an ArrayList instance; items are the texts of the strings written after
\* its block data
JavaList(xs) == [t |-> "JavaList", value |-> "", items |-> xs]
BlockData == [t |-> "BlockData", value |-> "", items |-> <<>>]

\* annotation == 'text': JavaString compares its value; a list instance never
\* equals a str; the block data of a HashMap (8 bytes) or an ArrayList (4 bytes)
\* never equals a word of the vocabulary (4, 6, 9, 10, 11 or 14 bytes).
EqText(annotation, text) == annotation.t = "JavaString" /\ annotation.value = text

\* str(x)
py_str(x) == IF x.t = "JavaString" THEN x.value ELSE "[" \o x.t \o "]"

\* x.annotations of a decoded value: one class with a write method for an
\* ArrayList, [block data] + elements; a JavaString has no such attribute.
HasAnnotations(x) == x.t = "JavaList"
SubAnnotations(x) == <<BlockData>> \o [i \in 1..Len(x.items) |-> JavaString(x.items[i])]

(***************************************************************************)
(* The channel catalog and get_channel_details.                            *)
(***************************************************************************)
\* the catalogs of the model: ids and labels are unique, names are free text
\* (in the second the name of one channel is the label of the other)
Catalogs ==
    { << [id |-> 101, label |-> "sles15-pool", name |-> "SLES15 Pool"],
         [id |-> 102, label |-> "sles15-updates", name |-> "SLES15 Updates"] >>,
      << [id |-> 102, label |-> "sles15-updates", name |-> "sles15-pool"],
         [id |-> 101, label |-> "sles15-pool", name |-> "SLES15 Pool"] >> }

\* Python's None where a channel row is expected
NoneRow == [id |-> 0, label |-> "", name |-> ""]

\* a channel identifier: an int (channel id) or a str (channel label)
IntIdent(n) == [is_int |-> TRUE, id |-> n, label |-> ""]
StrIdent(s) == [is_int |-> FALSE, id |-> 0, label |-> s]

IsIntIdent(i) == i.is_int
IsStrIdent(i) == ~i.is_int

\* SELECT * FROM rhnChannel WHERE id IN (ids) OR label IN (labels)
fetchall(ids, labels) ==
    LET Match(row) == (\E k \in 1..Len(ids) : ids[k].id = row.id)
                      \/ (\E k \in 1..Len(labels) : labels[k].label = row.label)
    IN  SelectSeq(rhnChannel, Match)

\* lines 413-433: the identifiers searched for that no row of the result has
MissingIdents(ids, labels, result) ==
    LET IdMissing(i) == ~\E k \in 1..Len(result) : result[k].id = i.id
        LabelMissing(i) == ~\E k \in 1..Len(result) : result[k].label = i.label
    IN  SelectSeq(ids, IdMissing) \o SelectSeq(labels, LabelMissing)

\* what a call of get_channel_details gives: the exception raised ("" when it
\* returns) with its missing list, and the value returned, of type kind:
\* "None", "dict" (rows[1]) or "list" (rows)
\* and the queries it made the cursor execute
ChannelOut(exc, miss, kind, rows, queries) ==
    [raised |-> exc, missing |-> miss, kind |-> kind, rows |-> rows,
     executed |-> queries]

\* lines 389-406: the query executed
ChannelQuery(ids, labels) == [table |-> "rhnChannel", ids |-> ids, labels |-> labels]

\* lines 409-441: from the rows fetched to the value returned
ChannelResult(ids, labels, result, is_list, ignore_missing) ==
    IF Len(result) = 0
    THEN ChannelOut("", <<>>, "None", <<>>, <<ChannelQuery(ids, labels)>>)
    ELSE IF Len(result) < Len(ids) + Len(labels) /\ ~ignore_missing
    THEN ChannelOut("LSTaskoChannelNotFoundException",
                    MissingIdents(ids, labels, result), "None", <<>>,
                    <<ChannelQuery(ids, labels)>>)
    ELSE IF ~is_list
    THEN ChannelOut("", <<>>, "dict", <<result[1]>>, <<ChannelQuery(ids, labels)>>)
    ELSE ChannelOut("", <<>>, "list", result, <<ChannelQuery(ids, labels)>>)

\* lines 376-407: the search items and the query
SearchChannels(ids, labels, is_list, ignore_missing) ==
    IF Len(ids) = 0 /\ Len(labels) = 0
    THEN ChannelOut("ValueError", <<>>, "None", <<>>, <<>>)
    ELSE ChannelResult(ids, labels, fetchall(ids, labels), is_list, ignore_missing)

\* get_channel_details(channel_identifiers, ignore_missing) on an instance whose
\* _db_cursor is cursor; is_list tells a list argument from a single int or str.
get_channel_details(cursor, channel_identifiers, is_list, ignore_missing) ==
    IF cursor = "None"
    THEN ChannelOut("LSTaskoDatabaseNotConnectedException", <<>>, "None", <<>>, <<>>)
    ELSE SearchChannels(SelectSeq(channel_identifiers, IsIntIdent),
                        SelectSeq(channel_identifiers, IsStrIdent),
                        is_list, ignore_missing)

(***************************************************************************)
(* get_channel_id, get_channel_label, get_channel_name: one body, three    *)
(* attributes.  A Python int or str is kept as an identifier is.           *)
(***************************************************************************)
PyNone == [is_none |-> TRUE]

\* int(row['id']), str(row['label']), str(row['name'])
AttrOf(attr, row) ==
    CASE attr = "id" -> IntIdent(row.id)
      [] attr = "label" -> StrIdent(row.label)
      [] attr = "name" -> StrIdent(row.name)

\* lines 273 and 276: a str equal to the row's label, an int equal to its id
IdentifiesRow(identifier, row) ==
    IF identifier.is_int THEN identifier.id = row.id ELSE identifier.label = row.label

\* lines 271-278 for one row: every element of results that identifies the
\* row is replaced, in place, by the row's attribute
UpdateResults(attr, st, row) ==
    [results |-> [i \in 1..Len(st.results) |->
                     IF IdentifiesRow(st.results[i], row) THEN AttrOf(attr, row)
                     ELSE st.results[i]],
     updated |-> st.updated \cup
                     {i \in 1..Len(st.results) : IdentifiesRow(st.results[i], row)}]

\* line 270: for single_channel_details in channel_details
RECURSIVE ForEachRow(_, _, _, _)
ForEachRow(attr, st, rows, k) ==
    IF k > Len(rows) THEN st
    ELSE ForEachRow(attr, UpdateResults(attr, st, rows[k]), rows, k + 1)

\* lines 281-283: set not found identifiers to None
NoneIfNotUpdated(st) ==
    [i \in 1..Len(st.results) |-> IF i \in st.updated THEN st.results[i] ELSE PyNone]

\* what a getter gives: the exception raised, or a value of type kind: "int"
\* or "str" (items[1]), "list" (items), "None"
AttrOut(exc, miss, kind, items, queries) ==
    [raised |-> exc, missing |-> miss, kind |-> kind, items |-> items,
     executed |-> queries]

\* lines 265-285, r being what get_channel_details gave
AttrResult(attr, channel_identifiers, r) ==
    IF r.raised # "" THEN AttrOut(r.raised, r.missing, "None", <<>>, r.executed)
    ELSE IF r.kind = "dict"
    THEN AttrOut("", <<>>, IF attr = "id" THEN "int" ELSE "str",
                 <<AttrOf(attr, r.rows[1])>>, r.executed)
    ELSE IF r.kind = "list"
    THEN AttrOut("", <<>>, "list",
                 NoneIfNotUpdated(ForEachRow(attr,
                     [results |-> channel_identifiers, updated |-> {}], r.rows, 1)),
                 r.executed)
    ELSE AttrOut("", <<>>, "None", <<>>, r.executed)

\* lines 260-263
get_channel_attr(attr, cursor, channel_identifiers, is_list, ignore_missing) ==
    IF cursor = "None"
    THEN AttrOut("LSTaskoDatabaseNotConnectedException", <<>>, "None", <<>>, <<>>)
    ELSE AttrResult(attr, channel_identifiers,
                    get_channel_details(cursor, channel_identifiers, is_list,
                                        ignore_missing))

get_channel_name(cursor, channel_identifiers, is_list, ignore_missing) ==
    get_channel_attr("name", cursor, channel_identifiers, is_list, ignore_missing)

get_channel_label(cursor, channel_identifiers, is_list, ignore_missing) ==
    get_channel_attr("label", cursor, channel_identifiers, is_list, ignore_missing)

get_channel_id(cursor, channel_identifiers, is_list, ignore_missing) ==
    get_channel_attr("id", cursor, channel_identifiers, is_list, ignore_missing)

(***************************************************************************)
(* javaobj.loads, as far as get_reposync_details depends on it.            *)
(***************************************************************************)
STREAM_MAGIC == <<172, 237>>      \* AC ED
STREAM_VERSION == <<0, 5>>        \* 00 05

HASHMAP == "java.util.HashMap"
ARRAYLIST == "java.util.ArrayList"

\* Exceptions that derive from Exception: all the model raises.
ExceptionClasses ==
    {"ValueError", "EOFError", "KeyError", "AttributeError", "IndexError", "TypeError",
     "LSTaskoDatabaseNotConnectedException", "LSTaskoChannelNotFoundException"}

\* what loads gives: the exception raised, or the kind of the object returned
\* ("None", "JavaString", "JavaInstance") with its class and annotations
LoadsOut(d, exc, kind) ==
    [raised |-> exc, kind |-> kind,
     class_name |-> d.class_name, annotations |-> d.annotations]

\* loads(data): raises on a short or wrong header, on a stream that ends inside
\* an object and on a reference to a handle never assigned; returns None for a
\* stream with no content, else the first content.
loads(d) ==
    IF Len(d.header) < 4 THEN LoadsOut(d, "EOFError", "None")
    ELSE IF SubSeq(d.header, 1, 2) # STREAM_MAGIC THEN LoadsOut(d, "ValueError", "None")
    ELSE IF SubSeq(d.header, 3, 4) # STREAM_VERSION THEN LoadsOut(d, "ValueError", "None")
    ELSE IF d.content = "empty" THEN LoadsOut(d, "", "None")
    ELSE IF d.content = "string" THEN LoadsOut(d, "", "JavaString")
    ELSE IF d.content = "badhandle" THEN LoadsOut(d, "KeyError", "None")
    ELSE IF ~d.closed THEN LoadsOut(d, "EOFError", "None")
    ELSE LoadsOut(d, "", "JavaInstance")

(***************************************************************************)
(* get_reposync_details                                                    *)
(***************************************************************************)
FlagKeys == {"no-errata", "latest", "sync-kickstart", "fail"}
DetailKeys == FlagKeys \cup {"channels"}

\* lines 210-216
DefaultDetails == [k \in DetailKeys |-> IF k = "channels" THEN <<>> ELSE FALSE]

Raise(st, exc) == [st EXCEPT !.raised = exc]

\* the same, inserting the channel at the front of the list
AppendDetailsAtFront(st, r) ==
    IF r.raised # "" THEN [st EXCEPT !.raised = r.raised, !.missing = r.missing]
    ELSE [st EXCEPT !.details["channels"] =
              <<IF r.kind = "None" THEN NoneRow ELSE r.rows[1]>> \o @]

\* lines 236-237 and 245-246: details['channels'].append(channel_details), r
\* being what get_channel_details gave
AppendDetails(st, r) ==
    IF r.raised # "" THEN [st EXCEPT !.raised = r.raised, !.missing = r.missing]
    ELSE [st EXCEPT !.details["channels"] =
              Append(@, IF r.kind = "None" THEN NoneRow ELSE r.rows[1])]

\* lines 233-236 and 242-245, n being what int(str(...)) gave.  With the class
\* as self (JSONEncoder.default), self.get_channel_details(id) lacks an
\* argument: TypeError.
ResolveChannel(self, st, n) ==
    IF n.raised # "" THEN Raise(st, n.raised)
    ELSE IF ~self.is_instance THEN Raise(st, "TypeError")
    ELSE AppendDetails([st EXCEPT !.calls = Append(@, n.int)],
                       get_channel_details(self.cursor, <<IntIdent(n.int)>>, FALSE, FALSE))

\* lines 233-237 and 242-246: int(str(x)), get_channel_details, append
AppendChannel(self, st, x) == ResolveChannel(self, st, py_int(py_str(x)))

RECURSIVE AppendChannels(_, _, _, _)
\* the loop of line 231 after one pass: left by an exception, or on to the next
AppendNext(self, st, subannotations, i) ==
    IF st.raised # "" THEN st ELSE AppendChannels(self, st, subannotations, i + 1)

\* line 231: for channel_id in subannotations[1:]
AppendChannels(self, st, subannotations, i) ==
    IF i > Len(subannotations) THEN st
    ELSE AppendNext(self, AppendChannel(self, st, subannotations[i]), subannotations, i)

\* the same without lower()
FlagValueCaseSensitive(x) == py_str(x) = "true"

\* line 250: "true" and "false" to bool
FlagValue(x) == py_lower(py_str(x)) = "true"

\* lines 228-237: the value of "channel_ids"
ProcessChannelIds(self, st, nxt) ==
    IF ~HasAnnotations(nxt) THEN Raise(st, "AttributeError")
    ELSE IF Len(SubAnnotations(nxt)) > 1
    THEN IF ~self.is_instance THEN Raise(st, "AttributeError")   \* self.logger
         ELSE AppendChannels(self, st, SubAnnotations(nxt), 2)
    ELSE st

\* lines 226-250: the body of the loop for annotations[index] (1-based here)
ProcessAnnotation(self, st, annotations, index) ==
    IF EqText(annotations[index], "channel_ids")
    THEN IF index + 1 > Len(annotations) THEN Raise(st, "IndexError")
         ELSE ProcessChannelIds(self, st, annotations[index + 1])
    ELSE IF EqText(annotations[index], "channel_id")
    THEN IF index + 1 > Len(annotations) THEN Raise(st, "IndexError")
         ELSE AppendChannel(self, st, annotations[index + 1])
    ELSE IF \E k \in FlagKeys : EqText(annotations[index], k)
    THEN IF index + 1 > Len(annotations) THEN Raise(st, "IndexError")
         ELSE [st EXCEPT !.details[annotations[index].value] =
                   FlagValue(annotations[index + 1])]
    ELSE st

RECURSIVE WalkAnnotations(_, _, _, _)
\* the loop of line 225 after one pass: left by an exception, or on to the next
WalkNext(self, st, annotations, index) ==
    IF st.raised # "" THEN st ELSE WalkAnnotations(self, st, annotations, index + 1)

\* line 225: for index, annotation in enumerate(annotations)
WalkAnnotations(self, st, annotations, index) ==
    IF index > Len(annotations) THEN st
    ELSE WalkNext(self, ProcessAnnotation(self, st, annotations, index), annotations, index)

\* a handler that catches ValueError alone
CaughtOnlyValueError(exc) == exc = "ValueError"

\* line 251: except Exception
CaughtByExcept(exc) == exc \in ExceptionClasses

\* a handler that hands back a fresh dict after a failure
ReturnedDetailsReset(st) == IF st.raised # "" THEN DefaultDetails ELSE st.details

\* line 255: return details (the dict the loop has been filling)
ReturnedDetails(st) == st.details

\* locals that start from the dict of the call before (a dict shared by the
\* calls, as a mutable default would be)
InitialStateShared ==
    [details |-> IF kept = NoCall THEN DefaultDetails ELSE kept.value,
     calls |-> <<>>, raised |-> "", missing |-> <<>>]

\* lines 210-216: the locals of a call before the try
InitialState == [details |-> DefaultDetails, calls |-> <<>>, raised |-> "", missing |-> <<>>]

\* lines 219-250: the body of the try, obj being what loads gave
TryBody(self, obj) ==
    IF obj.raised # "" THEN Raise(InitialState, obj.raised)
    ELSE IF obj.kind # "JavaInstance" THEN Raise(InitialState, "AttributeError")
    ELSE IF obj.class_name # HASHMAP THEN InitialState
    ELSE WalkAnnotations(self, InitialState, obj.annotations, 1)

\* The result of a call: raised, the exception let through ("" when the call
\* returns) and its missing list; returned and value, the dict returned;
\* absorbed, the exception the handler of line 251 caught; calls, the ids
\* resolved.
CallOut(exc, miss, type, v, caught, calls) ==
    [raised |-> exc, missing |-> miss, returned |-> type, value |-> v,
     absorbed |-> caught, calls |-> calls]

\* lines 251-255, st being the locals as the try left them.  With the class as
\* self the handler's self.logger raises AttributeError.
ExceptAndReturn(self, st) ==
    IF st.raised = "" THEN CallOut("", <<>>, "dict", ReturnedDetails(st), "", st.calls)
    ELSE IF ~CaughtByExcept(st.raised)
    THEN CallOut(st.raised, st.missing, "None", DefaultDetails, "", st.calls)
    ELSE IF ~self.is_instance
    THEN CallOut("AttributeError", <<>>, "None", DefaultDetails, "", st.calls)
    ELSE CallOut("", <<>>, "dict", ReturnedDetails(st), st.raised, st.calls)

\* self: is_instance (an LSTasko object, which has a logger) and its _db_cursor
get_reposync_details(self, d) == ExceptAndReturn(self, TryBody(self, loads(d)))

(***************************************************************************)
(* open() and _get_db_conn_str.  An argument not given is "" (None) or,    *)
(* for db_sslmode, FALSE.                                                  *)
(***************************************************************************)
DEFAULT_DB_PORT == 5432

\* str(n) for an int n >= 0
RECURSIVE py_str_int(_)
py_str_int(n) ==
    IF n < 10 THEN DigitChars[n + 1]
    ELSE py_str_int(n \div 10) \o DigitChars[(n % 10) + 1]

\* lines 153-158: sslmode needs sslrootcert
SslPart(kw) ==
    IF ~kw.db_sslmode THEN [raised |-> "", str |-> ""]
    ELSE IF kw.db_sslrootcert # ""
    THEN [raised |-> "", str |-> "sslmode=verify-full sslrootcert=" \o kw.db_sslrootcert \o " "]
    ELSE [raised |-> "LSTaskoException", str |-> ""]

\* lines 142-163, ssl being what lines 153-158 gave
ConnStr(kw, ssl) ==
    IF ssl.raised # "" THEN ssl
    ELSE [raised |-> "",
          str |-> (IF kw.db_host # "" THEN "host=" \o kw.db_host \o " " ELSE "")
                  \o (IF kw.db_port # 0 THEN "port=" \o py_str_int(kw.db_port) \o " " ELSE "")
                  \o (IF kw.db_name # "" THEN "dbname=" \o kw.db_name \o " " ELSE "")
                  \o (IF kw.db_user # "" THEN "user=" \o kw.db_user \o " " ELSE "")
                  \o (IF kw.db_password # "" THEN "password=" \o kw.db_password \o " " ELSE "")
                  \o ssl.str]

\* _get_db_conn_str(**kw), kw being the keyword arguments of the call: db_host,
\* db_name and db_user have no default, and a call without one is a TypeError
_get_db_conn_str(kw) ==
    IF ~({"db_host", "db_name", "db_user"} \subseteq DOMAIN kw)
    THEN [raised |-> "TypeError", str |-> ""]
    ELSE ConnStr(kw, SslPart(kw))

(***************************************************************************)
(* Time, as main() computes with it.  Seconds since year 1, and the ages a *)
(* user may type, exceed the integers of the checker: a Python int n and a *)
(* timedelta are kept as divmod(n, 86400) (timedelta's own normal form,    *)
(* days and seconds), a datetime as its day ordinal and the second of the  *)
(* day.  Times are whole seconds.                                          *)
(***************************************************************************)
SecondsPerDay == 86400
EpochOrdinal == 719163            \* date(1970, 1, 1).toordinal()
MaxOrdinal == 3652059             \* date.max.toordinal()
MaxDeltaDays == 999999999         \* timedelta.max.days

\* the int n, for -86400 <= n < 86400
SmallInt(n) ==
    IF n < 0 THEN [days |-> -1, seconds |-> n + SecondsPerDay]
    ELSE [days |-> 0, seconds |-> n]

\* int(datetime.datetime.timestamp(now))
timestamp(now) == [days |-> now.days - EpochOrdinal, seconds |-> now.seconds]

\* now - datetime.timedelta(seconds=n): OverflowError when the days of the
\* timedelta or the date that results are out of range
MinusSeconds(now, n) ==
    IF n.days > MaxDeltaDays \/ n.days < -MaxDeltaDays
    THEN [raised |-> "OverflowError", time |-> now]
    ELSE IF now.seconds < n.seconds
    THEN IF now.days - n.days - 1 < 1 \/ now.days - n.days - 1 > MaxOrdinal
         THEN [raised |-> "OverflowError", time |-> now]
         ELSE [raised |-> "",
               time |-> [days |-> now.days - n.days - 1,
                         seconds |-> now.seconds - n.seconds + SecondsPerDay]]
    ELSE IF now.days - n.days < 1 \/ now.days - n.days > MaxOrdinal
         THEN [raised |-> "OverflowError", time |-> now]
         ELSE [raised |-> "",
               time |-> [days |-> now.days - n.days,
                         seconds |-> now.seconds - n.seconds]]

\* a < b for two datetimes
Earlier(a, b) == a.days < b.days \/ (a.days = b.days /\ a.seconds < b.seconds)

(***************************************************************************)
(* get_task and get_all_tasks.  The runs of the Taskomatic tables are      *)
(* given as the rows the query would fetch, ordered by the database.       *)
(***************************************************************************)
TaskOut(exc, kind, rows, queries) ==
    [raised |-> exc, kind |-> kind, rows |-> rows, executed |-> queries]

\* lines 459-487 and 520-547: the query executed
TaskQuery(task_ids) == [table |-> "rhnTaskoRun", ids |-> task_ids]

\* the same without the test of the cursor
get_all_tasks_unchecked(cursor, runs) == TaskOut("", "list", runs, <<TaskQuery(<<>>)>>)

\* lines 512-564; runs are the rows of all runs
get_all_tasks(cursor, runs) ==
    IF cursor = "None"
    THEN TaskOut("LSTaskoDatabaseNotConnectedException", "None", <<>>, <<>>)
    ELSE TaskOut("", "list", runs, <<TaskQuery(<<>>)>>)

\* lines 489-510, rows being the runs fetched
TaskResult(rows, is_list, task_ids) ==
    IF ~is_list /\ Len(rows) = 1
    THEN TaskOut("", "dict", rows, <<TaskQuery(task_ids)>>)
    ELSE TaskOut("", "list", rows, <<TaskQuery(task_ids)>>)

\* lines 443-510: get_task(task), task being an int or a list of ints
get_task(cursor, task_ids, is_list, runs) ==
    IF cursor = "None"
    THEN TaskOut("LSTaskoDatabaseNotConnectedException", "None", <<>>, <<>>)
    ELSE LET Wanted(run) == \E k \in 1..Len(task_ids) : task_ids[k] = run.id
         IN  TaskResult(SelectSeq(runs, Wanted), is_list, task_ids)

(***************************************************************************)
(* JSONEncoder.default(data) for a bytes value: lines 68-77.               *)
(***************************************************************************)
\* what default gives: the exception raised, or a value of type kind: "dict"
\* (the record), "str" (str(data)) or "None"
DefaultOut(exc, kind, v) == [raised |-> exc, returned |-> kind, value |-> v]

\* lines 71-77, r being what get_reposync_details gave; the dict it returns
\* has five keys and is true
DefaultResult(r) ==
    IF r.raised # ""
    THEN IF CaughtByExcept(r.raised) THEN DefaultOut("", "str", DefaultDetails)
         ELSE DefaultOut(r.raised, "None", DefaultDetails)
    ELSE IF r.returned = "dict" THEN DefaultOut("", "dict", r.value)
    ELSE DefaultOut("", "None", DefaultDetails)

\* line 70: LSTasko.get_reposync_details(LSTasko, data), the class being self
default(d) ==
    DefaultResult(get_reposync_details([is_instance |-> FALSE, cursor |-> "None"], d))

(***************************************************************************)
(* The database connection: open, _db_open, __exit__, _db_close.           *)
(***************************************************************************)
\* What the driver does during _db_open: psycopg2.connect() and
\* connection.cursor() each succeed, raise psycopg2.Warning, or raise an error.
OpenOutcomes == {"ok", "connect_warning", "connect_error", "cursor_warning", "cursor_error"}
\* What the driver does during _db_close.
CloseOutcomes == {"ok", "cursor_close_warning", "connection_close_warning"}

DbOut(c, k, exc) == [connection |-> c, cursor |-> k, raised |-> exc]

\* lines 106-122
_db_open(connection, cursor, outcome) ==
    CASE outcome = "ok" -> DbOut("connection", "cursor", "")
      [] outcome = "connect_warning" -> DbOut(connection, cursor, "")
      [] outcome = "connect_error" -> DbOut(connection, cursor, "OperationalError")
      [] outcome = "cursor_warning" -> DbOut("connection", cursor, "")
      [] outcome = "cursor_error" -> DbOut("connection", cursor, "OperationalError")

\* lines 124-135
_db_close(connection, cursor, outcome) ==
    IF cursor = "None" THEN DbOut(connection, cursor, "AttributeError")
    ELSE CASE outcome = "ok" -> DbOut("None", "None", "")
           [] outcome = "cursor_close_warning" -> DbOut(connection, cursor, "")
           [] outcome = "connection_close_warning" -> DbOut(connection, "None", "")

\* what open gives: the instance's connection and cursor after it, the
\* exception raised, the string given to psycopg2.connect ("" when connect is
\* not reached)
OpenOut(d, conn_str) ==
    [connection |-> d.connection, cursor |-> d.cursor, raised |-> d.raised,
     conn_str |-> conn_str]

\* lines 96 and 103-104, s being what _get_db_conn_str gave
OpenBuilt(connection, cursor, s, outcome) ==
    IF s.raised # "" THEN OpenOut(DbOut(connection, cursor, s.raised), "")
    ELSE OpenOut(_db_open(connection, cursor, outcome), s.str)

\* lines 85-104: open(db_connection_string, db_host, db_name, db_user, ...).
\* The call of line 88 passes every argument but db_user.
open(connection, cursor, a, outcome) ==
    IF a.db_connection_string # ""
    THEN OpenOut(_db_open(connection, cursor, outcome), a.db_connection_string)
    ELSE IF a.db_host # "" /\ a.db_name # "" /\ a.db_user # ""
    THEN OpenBuilt(connection, cursor,
                   _get_db_conn_str([db_host |-> a.db_host, db_name |-> a.db_name,
                                     db_password |-> a.db_password,
                                     db_port |-> a.db_port,
                                     db_sslmode |-> a.db_sslmode,
                                     db_sslrootcert |-> a.db_sslrootcert]),
                   outcome)
    ELSE OpenOut(DbOut(connection, cursor, "LSTaskoException"), "")

(***************************************************************************)
(* main() of __main__.py, run with a connection string on the command      *)
(* line, the default columns and an output that takes what is printed.     *)
(***************************************************************************)
DEFAULT_MAX_AGE == 300

\* 'all' not in args.filter_...: the default is the str 'all' (of which 'all'
\* is a substring), an option given is a list of lowered words
FilterAdmits(filter, text) ==
    \/ ~filter.given
    \/ \E k \in 1..Len(filter.items) :
          filter.items[k] = "all" \/ filter.items[k] = py_lower(text)

\* lines 179-181: with --all, a max age of 300 becomes -1
ShowAllMaxAge(show_all, max_age) ==
    IF show_all /\ max_age = SmallInt(DEFAULT_MAX_AGE) THEN SmallInt(-1) ELSE max_age

\* lines 183-188: the max age after the validations, or the error logged
ValidatedMaxAge(max_age, now) ==
    IF max_age = SmallInt(0) THEN [error |-> FALSE, max_age |-> max_age]
    ELSE IF max_age = SmallInt(-1) THEN [error |-> FALSE, max_age |-> timestamp(now)]
    ELSE IF max_age.days < 0 THEN [error |-> TRUE, max_age |-> max_age]
    ELSE [error |-> FALSE, max_age |-> max_age]

\* the loop of line 191 so far: the tasks appended to all_tasks_details (by
\* position in all_tasks) and the exception that left the loop
LoopRaise(st, exc) == [st EXCEPT !.raised = exc]

\* lines 216-223, r being what get_reposync_details gave: the dict it returns
\* has five keys and is true, and channel_data[0] is a KeyError
WithChannelData(st, k, r) ==
    IF r.raised # "" THEN LoopRaise(st, r.raised)
    ELSE IF r.returned = "dict" THEN LoopRaise(st, "KeyError")
    ELSE [st EXCEPT !.details = Append(@, k)]

\* lines 200-265: the status and name filters, the repo-sync details, the row
AfterMaxAge(cli, self, st, task, k) ==
    IF ~FilterAdmits(cli.filter_status, task.status) THEN st
    ELSE IF ~FilterAdmits(cli.filter_name, task.name) THEN st
    ELSE IF task.name = "repo-sync"
    THEN WithChannelData(st, k, get_reposync_details(self, task.data))
    ELSE [st EXCEPT !.details = Append(@, k)]

\* line 194, c being what now - timedelta(seconds=max_age) gave
OlderThan(cli, self, st, task, k, c) ==
    IF c.raised # "" THEN LoopRaise(st, c.raised)
    ELSE IF Earlier(task.end_time, c.time) THEN st
    ELSE AfterMaxAge(cli, self, st, task, k)

\* lines 193-265 for all_tasks[k]
FilterTask(cli, max_age, now, self, st, task, k) ==
    IF task.end_time # PyNone
    THEN OlderThan(cli, self, st, task, k, MinusSeconds(now, max_age))
    ELSE AfterMaxAge(cli, self, st, task, k)

RECURSIVE FilterTasks(_, _, _, _, _, _, _)
\* the loop after one task: left by an exception, or on to the next
FilterNext(cli, max_age, now, self, st, all_tasks, k) ==
    IF st.raised # "" THEN st
    ELSE FilterTasks(cli, max_age, now, self, st, all_tasks, k + 1)

\* line 191: for task in all_tasks
FilterTasks(cli, max_age, now, self, st, all_tasks, k) ==
    IF k > Len(all_tasks) THEN st
    ELSE FilterNext(cli, max_age, now, self,
                    FilterTask(cli, max_age, now, self, st, all_tasks[k], k),
                    all_tasks, k)

\* what the with block of line 157 comes to: the value main returns, what it
\* printed, the error it logged ("" for none)
BlockOut(ret, printed, logged, queries) ==
    [ret |-> ret, printed |-> printed, logged |-> logged, executed |-> queries]

\* lines 267-308, st being the loop's end: the output, or the handlers
Output(st, queries) ==
    IF st.raised # "" THEN BlockOut(FALSE, <<>>, st.raised, queries)
    ELSE BlockOut(TRUE, st.details, "", queries)

\* lines 178-265, v being what the validations gave and t the tasks fetched
Validated(cli, now, self, t, v) ==
    IF v.error THEN BlockOut(FALSE, <<>>, "Task max age must be a positive number", t.executed)
    ELSE Output(FilterTasks(cli, v.max_age, now, self,
                            [details |-> <<>>, raised |-> ""], t.rows, 1),
                t.executed)

\* lines 165-308, t being what get_all_tasks gave
WithBlock(cli, now, self, t) ==
    IF t.raised # "" THEN BlockOut(FALSE, <<>>, t.raised, t.executed)
    ELSE Validated(cli, now, self, t,
                   ValidatedMaxAge(ShowAllMaxAge(cli.filter_show_all,
                                                 cli.filter_max_age), now))

\* what a run of the command comes to: the exit status, what it printed, the
\* error logged, the queries made and the instance as the run leaves it
MainOut(b, d) ==
    [exit |-> IF b.ret THEN 0 ELSE 1, printed |-> b.printed, logged |-> b.logged,
     executed |-> b.executed, connection |-> d.connection, cursor |-> d.cursor]

\* lines 51-54 at the end of the with block: __exit__
main_exit(b, o, close_outcome) ==
    IF o.cursor # "None"
    THEN MainOut(b, _db_close(o.connection, o.cursor, close_outcome))
    ELSE MainOut(b, o)

\* lines 157 and 306: __enter__ opens the database, o being what _db_open
\* gave; an error of the driver is logged and the with block is not entered
main_enter(cli, now, all_runs, o, close_outcome) ==
    IF o.raised # "" THEN MainOut(BlockOut(FALSE, <<>>, o.raised, <<>>), o)
    ELSE main_exit(WithBlock(cli, now, [is_instance |-> TRUE, cursor |-> o.cursor],
                             get_all_tasks(o.cursor, all_runs)),
                   o, close_outcome)

\* main() on a new LSTasko instance
main(cli, now, all_runs, open_outcome, close_outcome) ==
    main_enter(cli, now, all_runs, _db_open("None", "None", open_outcome), close_outcome)

(***************************************************************************)
(* The payloads the model decodes.                                         *)
(***************************************************************************)
Vocabulary == {"channel_ids", "channel_id"} \cup FlagKeys
Keys == Vocabulary \cup {"foo"}

\* 101 and 102 are channels of the catalog, 103 is not
IdTexts == {"101", "102", "103"}
IdLists == UNION {[1..n -> IdTexts] : n \in 0..MaxIds}

ScalarTexts(key) ==
    CASE key = "channel_ids" -> {"101"}
      [] key = "channel_id" -> {"101", "103", "x7"}
      [] key = "latest" -> {"true", "TRUE", "false"}
      [] key = "fail" -> {"true", "false"}
      [] key = "no-errata" -> {"True"}
      [] key = "sync-kickstart" -> {"true", "yes"}
      [] OTHER -> {"bar", "latest", "channel_id"}

ValuesOf(key) ==
    {JavaString(s) : s \in ScalarTexts(key)}
    \cup (IF key = "channel_ids" THEN {JavaList(xs) : xs \in IdLists} ELSE {})

Entries == UNION {{<<k, v>> : v \in ValuesOf(k)} : k \in Keys}

\* a HashMap has each key once; the stream order of its entries is any order
Maps ==
    UNION {{m \in [1..n -> Entries] :
                \A i, j \in 1..n : i # j => m[i][1] # m[j][1]} : n \in 0..MaxEntries}

\* what HashMap.writeObject leaves in the stream: block data (capacity, size),
\* then key, value, key, value, ...
MapAnnotations(m) ==
    <<BlockData>> \o
    [i \in 1..(2 * Len(m)) |->
        IF i % 2 = 1 THEN JavaString(m[(i + 1) \div 2][1]) ELSE m[i \div 2][2]]

GoodHeader == STREAM_MAGIC \o STREAM_VERSION
Headers == {GoodHeader, <<172, 237, 0, 4>>, <<80, 75, 3, 4>>}

Payload(h, content, class_name, annotations, closed) ==
    [header |-> h, content |-> content, class_name |-> class_name,
     annotations |-> annotations, closed |-> closed]

MapPayloads ==
    {Payload(h, "object", HASHMAP, MapAnnotations(m), c) :
        h \in Headers, m \in Maps, c \in BOOLEAN}

OtherPayloads ==
    {Payload(<<172, 237>>, "empty", "", <<>>, TRUE),
     Payload(GoodHeader, "empty", "", <<>>, TRUE),
     Payload(GoodHeader, "string", "", <<>>, TRUE),
     Payload(GoodHeader, "badhandle", "", <<>>, TRUE),
     Payload(GoodHeader, "object", ARRAYLIST,
             <<BlockData, JavaString("channel_id"), JavaString("101")>>, TRUE)}

Payloads == MapPayloads \cup OtherPayloads

NoData == Payload(<<>>, "empty", "", <<>>, TRUE)

\* the identifiers given to the channel getters: ids and labels the catalog
\* has and ones it lacks
Idents ==
    {IntIdent(101), IntIdent(102), IntIdent(103),
     StrIdent("sles15-pool"), StrIdent("sles15-updates"), StrIdent("sles12-pool")}
IdentLists == UNION {[1..n -> Idents] : n \in 0..MaxIdents}

\* channel_identifiers: a single int or str, or a list of them
ChannelArgs ==
    {[identifiers |-> <<i>>, is_list |-> FALSE] : i \in Idents}
        \cup {[identifiers |-> l, is_list |-> TRUE] : l \in IdentLists}

\* the arguments of open(): each given or not
OpenArgs ==
    {[db_connection_string |-> cs, db_host |-> h, db_name |-> n, db_user |-> u,
      db_password |-> pw, db_port |-> DEFAULT_DB_PORT, db_sslmode |-> ssl,
      db_sslrootcert |-> ""] :
        cs \in {"", "dbname=susemanager"}, h \in {"", "localhost"},
        n \in {"", "susemanager"}, u \in {"", "spacewalk"}, pw \in {"", "secret"},
        ssl \in BOOLEAN}

\* the time of a run of main(), and times before it
Now == [days |-> 739925, seconds |-> 43200]
SecondsAgo(n) == [days |-> Now.days, seconds |-> Now.seconds - n]
DaysAgo(n) == [days |-> Now.days - n, seconds |-> Now.seconds]

Run(id, name, status, end_time, d) ==
    [id |-> id, name |-> name, status |-> status, end_time |-> end_time, data |-> d]

\* the runs the Taskomatic tables may hold: finished a moment ago, 300 and 301
\* seconds ago, two days ago, not finished, and a repo-sync of one channel
Runs ==
    {Run(1, "errata-cache", "FINISHED", SecondsAgo(10), NoData),
     Run(2, "errata-cache", "FINISHED", SecondsAgo(DEFAULT_MAX_AGE), NoData),
     Run(3, "errata-cache", "FINISHED", SecondsAgo(DEFAULT_MAX_AGE + 1), NoData),
     Run(4, "cobbler-sync", "FAILED", DaysAgo(2), NoData),
     Run(5, "cobbler-sync", "RUNNING", PyNone, NoData),
     Run(6, "repo-sync", "FINISHED", SecondsAgo(10),
         Payload(GoodHeader, "object", HASHMAP,
                 <<BlockData, JavaString("channel_id"), JavaString("101")>>, TRUE))}

\* the rows of the runs, ordered by the database
RunLists ==
    UNION {{l \in [1..n -> Runs] : \A i, j \in 1..n : i < j => l[i].id < l[j].id} :
              n \in 0..MaxRuns}

\* get_task(task): one run id, or a list of them
TaskIds == {1, 6, 7}
TaskArgs ==
    {[ids |-> <<i>>, is_list |-> FALSE] : i \in TaskIds}
        \cup {[ids |-> l, is_list |-> TRUE] :
                 l \in UNION {[1..n -> TaskIds] : n \in 1..MaxIdents}}

\* --max-age: not given, or 300, -1 (unlimited), -5, 0, 100000000000
MaxAgeOptions ==
    {[given |-> FALSE, int |-> SmallInt(DEFAULT_MAX_AGE)]}
        \cup {[given |-> TRUE, int |-> n] :
                 n \in {SmallInt(DEFAULT_MAX_AGE), SmallInt(-1), SmallInt(-5), SmallInt(0),
                        [days |-> 1157407, seconds |-> 35200]}}

\* --status and --name: not given, or a list of lowered words
NotGiven == [given |-> FALSE, items |-> <<>>]
StatusOptions == {NotGiven, [given |-> TRUE, items |-> <<"finished">>]}
NameOptions == {NotGiven, [given |-> TRUE, items |-> <<"errata-cache", "repo-sync">>]}

\* the command lines
CommandLines ==
    {[filter_show_all |-> a, max_age_given |-> m.given, filter_max_age |-> m.int,
      filter_status |-> st, filter_name |-> nm] :
        a \in BOOLEAN, m \in MaxAgeOptions, st \in StatusOptions, nm \in NameOptions}

\* the payloads decoded where two calls are compared: the complete maps of at
\* most one entry, and the streams that are no map
RepeatPayloads ==
    {d \in MapPayloads : d.header = GoodHeader /\ d.closed /\ Len(d.annotations) <= 3}
        \cup OtherPayloads
        \cup {Payload(<<80, 75, 3, 4>>, "object", HASHMAP, <<BlockData>>, TRUE)}


(***************************************************************************)
(* The state machine.                                                      *)
(***************************************************************************)
\* lines 36-40: a new instance, not connected; the caller has called nothing
Init ==
    /\ db_connection = "None"
    /\ db_cursor = "None"
    /\ op = "idle"
    /\ data = NoData
    /\ raised = ""
    /\ missing = <<>>
    /\ returned = "None"
    /\ value = DefaultDetails
    /\ absorbed = ""
    /\ resolver_calls = <<>>
    /\ rhnChannel \in Catalogs
    /\ args = NoArgs
    /\ answer = NoAnswer
    /\ executed = <<>>
    /\ kept = NoCall

\* the instance after _db_open or _db_close, r being what it gave
DbBecomes(r) ==
    /\ db_connection' = r.connection
    /\ db_cursor' = r.cursor
    /\ raised' = r.raised

\* the caller has the result r of open(a)
Opened(a, r) ==
    /\ DbBecomes(r)
    /\ args' = [call |-> "open", open |-> a]
    /\ answer' = [kind |-> "open", conn_str |-> r.conn_str]
    /\ returned' = IF r.raised = "" THEN "self" ELSE "None"

\* lstasko.open(...): lines 81-104 (and __enter__, lines 45-47, with the
\* connection string of the constructor)
Open ==
    /\ op = "idle"
    /\ \E a \in OpenArgs, outcome \in OpenOutcomes :
          Opened(a, open(db_connection, db_cursor, a, outcome))
    /\ op' = "open"
    /\ UNCHANGED <<data, missing, value, absorbed, resolver_calls, rhnChannel,
                   executed, kept>>

\* __exit__ (and __del__): lines 51-59
Exit ==
    /\ op = "idle"
    /\ \E outcome \in CloseOutcomes :
          IF db_cursor # "None"
          THEN DbBecomes(_db_close(db_connection, db_cursor, outcome))
          ELSE DbBecomes(DbOut(db_connection, db_cursor, ""))
    /\ returned' = "None"
    /\ op' = "__exit__"
    /\ UNCHANGED <<data, missing, value, absorbed, resolver_calls, rhnChannel,
                   args, answer, executed, kept>>

\* lstasko._db_close() called by the caller itself: lines 124-135
DbClose ==
    /\ op = "idle"
    /\ \E outcome \in CloseOutcomes :
          DbBecomes(_db_close(db_connection, db_cursor, outcome))
    /\ returned' = IF raised' = "" THEN "True" ELSE "None"
    /\ op' = "_db_close"
    /\ UNCHANGED <<data, missing, value, absorbed, resolver_calls, rhnChannel,
                   args, answer, executed, kept>>

\* the caller has the result r of get_reposync_details(d); data is the buffer
\* after the call (bytes are immutable, and the code only reads them)
Decoded(d, r) ==
    /\ args' = [call |-> "decode", data |-> d]
    /\ data' = d
    /\ raised' = r.raised
    /\ missing' = r.missing
    /\ returned' = r.returned
    /\ value' = r.value
    /\ absorbed' = r.absorbed
    /\ resolver_calls' = r.calls

\* lstasko.get_reposync_details(task['data']) on the instance, the bytes being
\* one of payloads
DecodeFrom(payloads) ==
    /\ \E d \in payloads :
          Decoded(d, get_reposync_details([is_instance |-> TRUE, cursor |-> db_cursor], d))
    /\ op' = "get_reposync_details"
    /\ UNCHANGED <<db_connection, db_cursor, rhnChannel, answer, executed, kept>>

GetReposyncDetails ==
    /\ op = "idle"
    /\ DecodeFrom(Payloads)

\* the caller has the result r of get_channel_details(a, im)
ChannelDetailsGot(a, im, r) ==
    /\ args' = [call |-> "channel", identifiers |-> a.identifiers,
                is_list |-> a.is_list, ignore_missing |-> im]
    /\ raised' = r.raised
    /\ missing' = r.missing
    /\ returned' = r.kind
    /\ answer' = [kind |-> r.kind, rows |-> r.rows]
    /\ executed' = r.executed

\* lstasko.get_channel_details(channel_identifiers, ignore_missing)
GetChannelDetails ==
    /\ op = "idle"
    /\ \E a \in ChannelArgs, im \in BOOLEAN :
          ChannelDetailsGot(a, im,
                            get_channel_details(db_cursor, a.identifiers, a.is_list, im))
    /\ op' = "get_channel_details"
    /\ UNCHANGED <<db_connection, db_cursor, rhnChannel, data, value, absorbed,
                   resolver_calls, kept>>

\* the caller has the result r of get_channel_<attr>(a, im)
ChannelAttrGot(attr, a, im, r) ==
    /\ args' = [call |-> attr, identifiers |-> a.identifiers,
                is_list |-> a.is_list, ignore_missing |-> im]
    /\ raised' = r.raised
    /\ missing' = r.missing
    /\ returned' = r.kind
    /\ answer' = [kind |-> r.kind, items |-> r.items]
    /\ executed' = r.executed
    /\ op' = "get_channel_attr"
    /\ UNCHANGED <<db_connection, db_cursor, rhnChannel, data, value, absorbed,
                   resolver_calls, kept>>

\* lstasko.get_channel_name(channel_identifiers, ignore_missing)
GetChannelName ==
    /\ op = "idle"
    /\ \E a \in ChannelArgs, im \in BOOLEAN :
          ChannelAttrGot("name", a, im,
                         get_channel_name(db_cursor, a.identifiers, a.is_list, im))

\* lstasko.get_channel_label(channel_identifiers, ignore_missing)
GetChannelLabel ==
    /\ op = "idle"
    /\ \E a \in ChannelArgs, im \in BOOLEAN :
          ChannelAttrGot("label", a, im,
                         get_channel_label(db_cursor, a.identifiers, a.is_list, im))

\* lstasko.get_channel_id(channel_identifiers, ignore_missing)
GetChannelId ==
    /\ op = "idle"
    /\ \E a \in ChannelArgs, im \in BOOLEAN :
          ChannelAttrGot("id", a, im,
                         get_channel_id(db_cursor, a.identifiers, a.is_list, im))

\* the caller has the result r of get_task or get_all_tasks
TasksGot(call, ids, all_runs, r) ==
    /\ args' = [call |-> call, ids |-> ids, runs |-> all_runs]
    /\ raised' = r.raised
    /\ missing' = <<>>
    /\ returned' = r.kind
    /\ answer' = [kind |-> r.kind, rows |-> r.rows]
    /\ executed' = r.executed
    /\ UNCHANGED <<db_connection, db_cursor, rhnChannel, data, value, absorbed,
                   resolver_calls, kept>>

\* lstasko.get_task(task)
GetTask ==
    /\ op = "idle"
    /\ \E t \in TaskArgs, all_runs \in RunLists :
          TasksGot("get_task", t.ids, all_runs,
                   get_task(db_cursor, t.ids, t.is_list, all_runs))
    /\ op' = "get_task"

\* lstasko.get_all_tasks()
GetAllTasks ==
    /\ op = "idle"
    /\ \E all_runs \in RunLists :
          TasksGot("get_all_tasks", <<>>, all_runs, get_all_tasks(db_cursor, all_runs))
    /\ op' = "get_all_tasks"

\* json.dumps has the result r of JSONEncoder.default(d)
DefaultGot(d, r) ==
    /\ args' = [call |-> "default", data |-> d]
    /\ data' = d
    /\ raised' = r.raised
    /\ returned' = r.returned
    /\ value' = r.value

\* json.dumps(..., cls=LSTasko.JSONEncoder) meets a bytes value
JsonDefault ==
    /\ op = "idle"
    /\ \E d \in RepeatPayloads : DefaultGot(d, default(d))
    /\ op' = "default"
    /\ UNCHANGED <<db_connection, db_cursor, rhnChannel, missing, absorbed,
                   resolver_calls, answer, executed, kept>>

\* the command has run: r is what it came to
MainDone(cli, all_runs, r) ==
    /\ args' = [call |-> "main", cli |-> cli, all_tasks |-> all_runs]
    /\ raised' = ""
    /\ missing' = <<>>
    /\ returned' = "exit"
    /\ answer' = [kind |-> "exit", exit |-> r.exit, printed |-> r.printed,
                  logged |-> r.logged, connection |-> r.connection,
                  cursor |-> r.cursor]
    /\ executed' = r.executed

\* python -m lstasko ...: main() makes its own LSTasko instance
Main ==
    /\ op = "idle"
    /\ \E cli \in CommandLines, all_runs \in RunLists,
          open_outcome \in OpenOutcomes, close_outcome \in CloseOutcomes :
          MainDone(cli, all_runs, main(cli, Now, all_runs, open_outcome, close_outcome))
    /\ op' = "main"
    /\ UNCHANGED <<db_connection, db_cursor, rhnChannel, data, value, absorbed,
                   resolver_calls, kept>>

\* the caller's view of its last call is cleared
BackToIdle ==
    /\ op' = "idle"
    /\ data' = NoData
    /\ raised' = ""
    /\ missing' = <<>>
    /\ returned' = "None"
    /\ value' = DefaultDetails
    /\ absorbed' = ""
    /\ resolver_calls' = <<>>
    /\ args' = NoArgs
    /\ answer' = NoAnswer
    /\ executed' = <<>>
    /\ UNCHANGED <<db_connection, db_cursor, rhnChannel>>

\* the caller takes the result and goes on to its next call
Resume ==
    /\ op # "idle"
    /\ BackToIdle
    /\ UNCHANGED kept

Next ==
    \/ Open
    \/ Exit
    \/ DbClose
    \/ GetReposyncDetails
    \/ GetChannelDetails
    \/ GetChannelName
    \/ GetChannelLabel
    \/ GetChannelId
    \/ GetTask
    \/ GetAllTasks
    \/ JsonDefault
    \/ Main
    \/ Resume

Spec == Init /\ [][Next]_vars

(***************************************************************************)
(* Two calls compared: the caller keeps the result of one decode and       *)
(* decodes again, other decodes (and open, close) coming in between.       *)
(***************************************************************************)
GetReposyncDetailsAgain ==
    /\ op = "idle"
    /\ DecodeFrom(RepeatPayloads)

\* the caller keeps the record it got (example.py: task['data'] = ...) and
\* goes on
ResumeKeeping ==
    /\ op = "get_reposync_details"
    /\ kept' = [call |-> "decode", data |-> args.data, cursor |-> db_cursor,
                raised |-> raised, returned |-> returned, value |-> value]
    /\ BackToIdle

NextRepeat ==
    \/ Open
    \/ Exit
    \/ GetReposyncDetailsAgain
    \/ ResumeKeeping
    \/ Resume

SpecRepeat == Init /\ [][NextRepeat]_vars

(***************************************************************************)
(* What the properties speak of.                                           *)
(***************************************************************************)
DecodeCall == op = "get_reposync_details"
Connected == db_cursor # "None"
Self == [is_instance |-> TRUE, cursor |-> db_cursor]

\* a complete stream whose content is one HashMap
WellFormed(d) ==
    d.header = GoodHeader /\ d.content = "object" /\ d.class_name = HASHMAP /\ d.closed

\* the entries of the map, by position in the key/value sequence
NumEntries(d) == (Len(d.annotations) - 1) \div 2
EntryKey(d, i) == d.annotations[2 * i].value
EntryValue(d, i) == d.annotations[2 * i + 1]
IsScalar(v) == v.t = "JavaString"

\* no value of the map is a word of the vocabulary
NoVocabularyValue(d) ==
    \A i \in 1..NumEntries(d) :
        IsScalar(EntryValue(d, i)) => EntryValue(d, i).value \notin Vocabulary

\* the decimal text of the ids the model's payloads name
DecimalText == (101 :> "101") @@ (102 :> "102") @@ (103 :> "103")
IsIdText(t) == \E n \in DOMAIN DecimalText : DecimalText[n] = t
IdOfText(t) == CHOOSE n \in DOMAIN DecimalText : DecimalText[n] = t
InCatalog(n) == \E k \in 1..Len(rhnChannel) : rhnChannel[k].id = n
ChannelOf(n) == rhnChannel[CHOOSE k \in 1..Len(rhnChannel) : rhnChannel[k].id = n]

\* a channel entry of the map names its ids as the producer writes them
ChannelEntryWellFormed(d, i) ==
    /\ EntryKey(d, i) = "channel_ids" =>
          /\ ~IsScalar(EntryValue(d, i))
          /\ \A j \in 1..Len(EntryValue(d, i).items) : IsIdText(EntryValue(d, i).items[j])
    /\ EntryKey(d, i) = "channel_id" =>
          /\ IsScalar(EntryValue(d, i))
          /\ IsIdText(EntryValue(d, i).value)
ChannelEntriesWellFormed(d) == \A i \in 1..NumEntries(d) : ChannelEntryWellFormed(d, i)

\* the ids of entry i, and of the whole map, in stream order
EntryIds(d, i) ==
    IF EntryKey(d, i) = "channel_ids"
    THEN [j \in 1..Len(EntryValue(d, i).items) |-> IdOfText(EntryValue(d, i).items[j])]
    ELSE IF EntryKey(d, i) = "channel_id" THEN <<IdOfText(EntryValue(d, i).value)>>
    ELSE <<>>
RECURSIVE IdsUpTo(_, _)
IdsUpTo(d, n) == IF n = 0 THEN <<>> ELSE IdsUpTo(d, n - 1) \o EntryIds(d, n)
PayloadIds(d) == IdsUpTo(d, NumEntries(d))
NotInCatalog(n) == ~InCatalog(n)
MissingIds(d) == SelectSeq(PayloadIds(d), NotInCatalog)

\* C1: every buffer whose first 4 bytes differ from AC ED 00 05 gives the
\* caller a null or empty result, whatever follows the header.
C1_NotThisFormatIsNullOrEmpty ==
    (DecodeCall /\ Len(data.header) = 4 /\ data.header # GoodHeader)
        => /\ raised = ""
           /\ returned = "None" \/ (returned = "dict" /\ DOMAIN value = {})

\* C2: for every input, get_reposync_details returns a result and lets no
\* exception through.
C2_NeverPropagates == DecodeCall => (raised = "" /\ returned = "dict")

\* a truncated map payload was decoded: the parse failed and the call returned
C2_Witness ==
    /\ DecodeCall
    /\ data.header = GoodHeader /\ data.content = "object" /\ ~data.closed
    /\ NumEntries(data) >= 1
    /\ absorbed = "EOFError"
    /\ raised = ""

\* C3: a payload that names ids the catalog lacks makes get_reposync_details
\* raise ChannelNotFound, once, carrying all the missing ids of the payload.
C3_ChannelNotFoundPropagates ==
    (/\ DecodeCall /\ Connected
     /\ WellFormed(data) /\ NoVocabularyValue(data) /\ ChannelEntriesWellFormed(data)
     /\ Len(MissingIds(data)) > 0)
        => /\ raised = "LSTaskoChannelNotFoundException"
           /\ missing = [j \in 1..Len(MissingIds(data)) |-> IntIdent(MissingIds(data)[j])]

\* the keys of the map
HasKey(d, k) == \E i \in 1..NumEntries(d) : EntryKey(d, i) = k

\* every spelling of "true", in either case letter by letter
TrueSpellings ==
    {a \o b \o c \o e : a \in {"t", "T"}, b \in {"r", "R"}, c \in {"u", "U"}, e \in {"e", "E"}}

\* C4: a map holding "channel_ids" -> a list of k id texts, all in the catalog,
\* decodes to exactly k channels, the i-th being the channel of the i-th id,
\* with one resolver call per id (the other entries of the map being flags or
\* unknown keys).
C4_ChannelIdsInOrder ==
    (/\ DecodeCall /\ Connected
     /\ WellFormed(data) /\ NoVocabularyValue(data) /\ ChannelEntriesWellFormed(data)
     /\ HasKey(data, "channel_ids") /\ ~HasKey(data, "channel_id")
     /\ Len(MissingIds(data)) = 0)
        => LET ids == PayloadIds(data)
           IN  /\ raised = "" /\ returned = "dict"
               /\ Len(value["channels"]) = Len(ids)
               /\ \A j \in 1..Len(ids) : value["channels"][j] = ChannelOf(ids[j])
               /\ resolver_calls = ids

\* a list of two different ids was decoded into two channels
C4_Witness ==
    /\ DecodeCall /\ Connected
    /\ WellFormed(data) /\ NoVocabularyValue(data) /\ ChannelEntriesWellFormed(data)
    /\ HasKey(data, "channel_ids") /\ ~HasKey(data, "channel_id")
    /\ Len(MissingIds(data)) = 0
    /\ Len(PayloadIds(data)) = 2
    /\ PayloadIds(data)[1] # PayloadIds(data)[2]
    /\ Len(value["channels"]) = 2

\* the map names one channel under "channel_id" and has no other key of the
\* vocabulary
SingleChannelPayload(d) ==
    /\ WellFormed(d) /\ NoVocabularyValue(d) /\ ChannelEntriesWellFormed(d)
    /\ HasKey(d, "channel_id")
    /\ \A i \in 1..NumEntries(d) :
          EntryKey(d, i) \in Vocabulary => EntryKey(d, i) = "channel_id"

EveryEntryDecodes(d) ==
    /\ WellFormed(d) /\ NoVocabularyValue(d) /\ ChannelEntriesWellFormed(d)
    /\ (HasKey(d, "channel_ids") \/ HasKey(d, "channel_id")) => Connected

Neutralised(d) ==
    [d EXCEPT !.annotations =
        [p \in 1..Len(d.annotations) |->
            IF /\ p > 1 /\ p % 2 = 1
               /\ d.annotations[p - 1].value \notin Vocabulary
               /\ IsScalar(d.annotations[p])
               /\ d.annotations[p].value \in Vocabulary
            THEN JavaString("bar")
            ELSE d.annotations[p]]]

\* C7: keys are matched at key positions only: a value that spells a word
\* of the vocabulary is never taken for a key, and changes neither a flag nor
\* the channel sequence.
C7_ValuesAreNotKeys ==
    (DecodeCall /\ WellFormed(data))
        => LET r == get_reposync_details(Self, Neutralised(data))
           IN  /\ raised = r.raised
               /\ value = r.value

\* the payload without entry i of its map
WithoutEntry(d, i) ==
    [d EXCEPT !.annotations =
        SubSeq(d.annotations, 1, 2 * i - 1)
        \o SubSeq(d.annotations, 2 * i + 2, Len(d.annotations))]

\* C8: an entry with a key outside the vocabulary and any scalar value,
\* anywhere in the map, leaves the decoded record as it is without the entry,
\* and raises nothing.
C8_UnknownKeysAreSkipped ==
    (DecodeCall /\ WellFormed(data))
        => \A i \in 1..NumEntries(data) :
              (EntryKey(data, i) \notin Vocabulary /\ IsScalar(EntryValue(data, i)))
                 => LET r == get_reposync_details(Self, WithoutEntry(data, i))
                    IN  /\ raised = "" /\ r.raised = ""
                        /\ value = r.value

\* the payload cut down to the first k entries of its map
FirstEntries(d, k) == [d EXCEPT !.annotations = SubSeq(d.annotations, 1, 2 * k + 1)]

IsPrefix(short, long) ==
    Len(short) <= Len(long) /\ SubSeq(long, 1, Len(short)) = short

\* C9: when an entry of the map fails, the channels and flags extracted from
\* the entries before it are in the record returned: whatever the map's first
\* k entries decode to without a failure is kept.
C9_ExtractedIsKept ==
    (DecodeCall /\ WellFormed(data) /\ NoVocabularyValue(data) /\ absorbed # "")
        => /\ raised = "" /\ returned = "dict"
           /\ \A k \in 0..(NumEntries(data) - 1) :
                 LET r == get_reposync_details(Self, FirstEntries(data, k))
                 IN  r.absorbed = ""
                        => /\ IsPrefix(r.value["channels"], value["channels"])
                           /\ \A f \in FlagKeys : r.value[f] => value[f]

\* the second entry failed after a flag and a channel had been extracted
C9_Witness ==
    /\ DecodeCall /\ WellFormed(data) /\ NoVocabularyValue(data)
    /\ absorbed = "ValueError"
    /\ NumEntries(data) = 2
    /\ EntryKey(data, 2) = "channel_id"
    /\ get_reposync_details(Self, FirstEntries(data, 1)).absorbed = ""
    /\ \/ \E f \in FlagKeys : value[f]
       \/ Len(value["channels"]) > 0

\* C10: a failure aborts only the entry it happens in: the well-formed
\* entries after it (flags, channel keys) are still extracted.
C10_LaterEntriesExtracted ==
    (DecodeCall /\ Connected /\ WellFormed(data) /\ NoVocabularyValue(data))
        => \A i \in 1..NumEntries(data) :
              /\ (/\ EntryKey(data, i) \in FlagKeys
                  /\ IsScalar(EntryValue(data, i))
                  /\ EntryValue(data, i).value \in TrueSpellings)
                    => value[EntryKey(data, i)] = TRUE
              /\ (/\ EntryKey(data, i) = "channel_id"
                  /\ ChannelEntryWellFormed(data, i)
                  /\ InCatalog(EntryIds(data, i)[1]))
                    => \E j \in 1..Len(value["channels"]) :
                          value["channels"][j] = ChannelOf(EntryIds(data, i)[1])

\* the rows an identifier matches: an int by id, a str by label
Matches(ident, row) ==
    IF ident.is_int THEN row.id = ident.id ELSE row.label = ident.label
HasMatch(ident) == \E k \in 1..Len(rhnChannel) : Matches(ident, rhnChannel[k])
Requested(idents) == {idents[i] : i \in 1..Len(idents)}
Unmatched(idents) == {x \in Requested(idents) : ~HasMatch(x)}
ChannelDetailsCall == op = "get_channel_details"

\* C11: get_channel_details called with ignore_missing false for identifiers of
\* which one or more (possibly all, possibly repeated) match no channel raises
\* ChannelNotFound, and its missing list holds exactly the requested
\* identifiers that match nothing.
C11_MissingIsComplete ==
    (/\ ChannelDetailsCall /\ Connected
     /\ ~args.ignore_missing
     /\ Unmatched(args.identifiers) # {})
        => /\ raised = "LSTaskoChannelNotFoundException"
           /\ Requested(missing) = Unmatched(args.identifiers)

\* an earlier call on the same bytes, with the instance connected as it is now
SameCallKept ==
    /\ DecodeCall
    /\ kept # NoCall
    /\ kept.data = args.data
    /\ kept.cursor = db_cursor

ChannelAttrCall == op = "get_channel_attr"
MatchOf(ident) == rhnChannel[CHOOSE k \in 1..Len(rhnChannel) : Matches(ident, rhnChannel[k])]

\* the id, label or name of the channel an identifier matches, None without one
ExpectedAttr(attr, ident) ==
    IF ~HasMatch(ident) THEN PyNone
    ELSE IF attr = "id" THEN IntIdent(MatchOf(ident).id)
    ELSE IF attr = "label" THEN StrIdent(MatchOf(ident).label)
    ELSE StrIdent(MatchOf(ident).name)

\* C13: get_channel_id / get_channel_label / get_channel_name called with a
\* list of identifiers and ignore_missing=True return a list of the length of
\* the input whose i-th element is the id / label / name of the channel that
\* the i-th identifier matches, and None when it matches none.
C13_ListGettersPositional ==
    (/\ ChannelAttrCall /\ Connected
     /\ args.is_list /\ args.ignore_missing
     /\ Len(args.identifiers) >= 1)
        => /\ raised = ""
           /\ returned = "list"
           /\ Len(answer.items) = Len(args.identifiers)
           /\ \A i \in 1..Len(args.identifiers) :
                 answer.items[i] = ExpectedAttr(args.call, args.identifiers[i])

MainCall == op = "main"

\* the command ran its query: the database was opened with a cursor
MainQueried == MainCall /\ Len(executed) > 0

\* now - end_time, and whether it exceeds n seconds
AgeOf(end_time) ==
    IF Now.seconds >= end_time.seconds
    THEN [days |-> Now.days - end_time.days, seconds |-> Now.seconds - end_time.seconds]
    ELSE [days |-> Now.days - end_time.days - 1,
          seconds |-> Now.seconds - end_time.seconds + SecondsPerDay]
Exceeds(age, n) == age.days > n.days \/ (age.days = n.days /\ age.seconds > n.seconds)

\* the run ended earlier than now minus the limit
TooOld(run, limit) ==
    /\ ~limit.unlimited
    /\ run.end_time # PyNone
    /\ Exceeds(AgeOf(run.end_time), limit.seconds)
Unlimited == [unlimited |-> TRUE, seconds |-> SmallInt(0)]
Limit(n) == IF n = SmallInt(-1) THEN Unlimited ELSE [unlimited |-> FALSE, seconds |-> n]

\* the status and name filters of the command line
Wanted(cli, run) ==
    /\ cli.filter_status.given =>
          \E k \in 1..Len(cli.filter_status.items) :
              cli.filter_status.items[k] = py_lower(run.status)
    /\ cli.filter_name.given =>
          \E k \in 1..Len(cli.filter_name.items) :
              cli.filter_name.items[k] = py_lower(run.name)

\* the positions of the tasks to print, in order
ExpectedPrinted(cli, all_tasks, limit) ==
    LET Shown(k) == Wanted(cli, all_tasks[k]) /\ ~TooOld(all_tasks[k], limit)
    IN  SelectSeq([k \in 1..Len(all_tasks) |-> k], Shown)

NoRepoSync(all_tasks) == \A k \in 1..Len(all_tasks) : all_tasks[k].name # "repo-sync"
BadMaxAge(n) == n.days < 0 /\ n # SmallInt(-1)
HugeMaxAge(n) == n.days > Now.days

\* C14: with --all, a --max-age given on the command line (300 included) is
\* enforced, and without --max-age no task is left out for its age; the
\* status and name filters apply in both cases.
C14_AllKeepsGivenMaxAge ==
    (/\ MainQueried
     /\ args.cli.filter_show_all
     /\ NoRepoSync(args.all_tasks)
     /\ ~BadMaxAge(args.cli.filter_max_age) /\ ~HugeMaxAge(args.cli.filter_max_age))
        => /\ answer.exit = 0
           /\ answer.printed =
                 ExpectedPrinted(args.cli, args.all_tasks,
                                 IF args.cli.max_age_given
                                 THEN Limit(args.cli.filter_max_age) ELSE Unlimited)

\* C15: without --all, the command leaves out for its age exactly the tasks
\* that have an end_time earlier than now minus max-age seconds, none with
\* max-age -1; with any other negative max-age it logs an error, prints no
\* task and exits with status 1.
C15_MaxAgeFilter ==
    (/\ MainQueried
     /\ ~args.cli.filter_show_all
     /\ NoRepoSync(args.all_tasks))
        => IF BadMaxAge(args.cli.filter_max_age)
           THEN /\ answer.exit = 1
                /\ answer.printed = <<>>
                /\ answer.logged # ""
           ELSE /\ answer.exit = 0
                /\ answer.printed =
                      ExpectedPrinted(args.cli, args.all_tasks,
                                      Limit(args.cli.filter_max_age))

OpenCall == op = "open"

\* open() was called without a connection string, with host, name and user
OpenByParts ==
    /\ OpenCall
    /\ args.open.db_connection_string = ""
    /\ args.open.db_host # "" /\ args.open.db_name # "" /\ args.open.db_user # ""

\* the connection string the arguments describe
ExpectedConnStr(a) ==
    "host=" \o a.db_host \o " port=5432 dbname=" \o a.db_name \o " user=" \o a.db_user
        \o " " \o (IF a.db_password # "" THEN "password=" \o a.db_password \o " " ELSE "")

\* C16: open() without a connection string and with db_host, db_name and
\* db_user (no ssl arguments) does not raise, gives psycopg2.connect the
\* string built of host, port, dbname, user and the password given, and
\* returns the instance; and open() raises LSTaskoException only when there
\* is no connection string and one of db_host, db_name, db_user is missing.
C16_OpenByParts ==
    /\ (OpenByParts /\ ~args.open.db_sslmode) =>
          /\ raised \in {"", "OperationalError"}
          /\ answer.conn_str = ExpectedConnStr(args.open)
          /\ raised = "" => returned = "self"
    /\ (OpenCall /\ raised = "LSTaskoException") =>
          /\ args.open.db_connection_string = ""
          /\ args.open.db_host = "" \/ args.open.db_name = "" \/ args.open.db_user = ""

\* the caller's last call is one of the six query methods
QueryCall ==
    op \in {"get_channel_details", "get_channel_attr", "get_task", "get_all_tasks"}

\* C17: whenever the instance holds no cursor, a call of get_channel_details,
\* get_channel_id, get_channel_label, get_channel_name, get_task or
\* get_all_tasks raises LSTaskoDatabaseNotConnectedException and makes the
\* cursor execute nothing, whatever was opened, closed or queried before.
C17_NotConnectedRaises ==
    (QueryCall /\ db_cursor = "None")
        => /\ raised = "LSTaskoDatabaseNotConnectedException"
           /\ executed = <<>>

\* get_all_tasks was called on an instance that had been opened and has no
\* cursor now, and raised
C17_Witness ==
    /\ op = "get_all_tasks"
    /\ db_cursor = "None" /\ db_connection = "connection"
    /\ Len(args.runs) > 0
    /\ raised = "LSTaskoDatabaseNotConnectedException"

\* C18: in every state reached by open, __enter__, __exit__, __del__ and
\* _db_close, driver Warnings included, the instance holds a cursor exactly
\* when it holds a connection, and when open() has returned the instance, the
\* instance is connected.
C18_CursorIffConnection ==
    /\ (db_cursor = "None") <=> (db_connection = "None")
    /\ (OpenCall /\ returned = "self") => Connected

DefaultCall == op = "default"

\* the bytes are a map that names a channel of the catalog as the producer
\* writes it (one entry, or more with flags and unknown keys)
RepoSyncPayload(d) ==
    /\ WellFormed(d) /\ NoVocabularyValue(d) /\ ChannelEntriesWellFormed(d)
    /\ Len(PayloadIds(d)) > 0

\* C19: JSONEncoder.default applied to bytes never raises; it returns the
\* decoded record when the bytes are a repo-sync payload and None when they
\* do not start with the header of the serialization format.
C19_DefaultNeverRaises ==
    DefaultCall =>
        /\ raised = ""
        /\ RepoSyncPayload(data) => returned = "dict"
        /\ (Len(data.header) = 4 /\ data.header # GoodHeader) => returned = "None"

====
